---- MODULE Spec2Model ----
(***************************************************************************)
(* Canonical JSON encoding and the signable envelope of                    *)
(* securesystemslib/formats.py: make_signable, _canonical_string_encoder,  *)
(* _encode_canonical and encode_canonical.                                 *)
(*                                                                         *)
(* Text is a sequence of code points, so that Python's ordinal string      *)
(* comparison is integer comparison element by element.  What a call      *)
(* passes to its output function is a sequence of such fragments.          *)
(***************************************************************************)
EXTENDS Integers, Sequences, FiniteSets, TLC

VARIABLES heap, lists, last, rets, made, appended

vars == <<heap, lists, last, rets, made, appended>>

(***************************************************************************)
(* Bounds of the model.                                                    *)
(***************************************************************************)
MaxStrLen == 2
MaxLen == 2
MaxObjs == 3
MaxSigs == 3
\* Frames the interpreter allows before it raises RecursionError; above the
\* depth of every tree-shaped value below.
RecursionLimit == 6
\* Writes a rejecting output function takes before it raises.
MaxWrites == 3

(***************************************************************************)
(* Code points.                                                            *)
(***************************************************************************)
Quote == 34
Backslash == 92

CP ==
  [c \in {"t", "r", "u", "e", "f", "a", "l", "s", "n", "[", "]", "{", "}",
          ",", ":", "-", ".", "5", "i", "g", "d", "k", "y", "m", "h", "o",
          "b", "c", "A"} |->
     CASE c = "t" -> 116 [] c = "r" -> 114 [] c = "u" -> 117 [] c = "e" -> 101
       [] c = "f" -> 102 [] c = "a" -> 97 [] c = "l" -> 108 [] c = "s" -> 115
       [] c = "n" -> 110 [] c = "[" -> 91 [] c = "]" -> 93 [] c = "{" -> 123
       [] c = "}" -> 125 [] c = "," -> 44 [] c = ":" -> 58 [] c = "-" -> 45
       [] c = "." -> 46 [] c = "5" -> 53 [] c = "i" -> 105 [] c = "g" -> 103
       [] c = "d" -> 100 [] c = "k" -> 107 [] c = "y" -> 121 [] c = "m" -> 109
       [] c = "h" -> 104 [] c = "o" -> 111 [] c = "b" -> 98 [] c = "c" -> 99
       [] c = "A" -> 65]

Lit(chars) == [i \in 1..Len(chars) |-> CP[chars[i]]]

(***************************************************************************)
(* Python objects, as far as the encoder tells them apart.  A float with   *)
(* n stands for n + 0.5.  A dict keeps its entries in insertion order:     *)
(* keys[i] maps to items[i].                                               *)
(***************************************************************************)
PyStr(s) == [kind |-> "str", s |-> s, n |-> 0, keys |-> <<>>, items |-> <<>>]
PyInt(n) == [kind |-> "int", s |-> <<>>, n |-> n, keys |-> <<>>, items |-> <<>>]
PyBool(b) ==
  [kind |-> "bool", s |-> <<>>, n |-> IF b THEN 1 ELSE 0, keys |-> <<>>,
   items |-> <<>>]
PyNone == [kind |-> "none", s |-> <<>>, n |-> 0, keys |-> <<>>, items |-> <<>>]
PyFloat(n) == [kind |-> "float", s |-> <<>>, n |-> n, keys |-> <<>>, items |-> <<>>]
PyList(items) ==
  [kind |-> "list", s |-> <<>>, n |-> 0, keys |-> <<>>, items |-> items]
PyDict(keys, items) ==
  [kind |-> "dict", s |-> <<>>, n |-> 0, keys |-> keys, items |-> items]
\* A reference to the container held by heap object id: the way a list or a
\* dict can hold itself.
PyRef(id) == [kind |-> "ref", s |-> <<>>, n |-> id, keys |-> <<>>, items |-> <<>>]

(***************************************************************************)
(* str(object) for an integer: decimal digits, '-' for a negative value.   *)
(***************************************************************************)
RECURSIVE Digits(_)
Digits(n) ==
  IF n < 10 THEN <<48 + n>> ELSE Append(Digits(n \div 10), 48 + (n % 10))

IntStr(n) == IF n < 0 THEN Lit(<<"-">>) \o Digits(0 - n) ELSE Digits(n)

\* str(object) for the float n + 0.5.
FloatStr(n) == IntStr(n) \o Lit(<<".", "5">>)

\* str(object) for a number.
StrOf(object) ==
  IF object.kind = "float" THEN FloatStr(object.n) ELSE IntStr(object.n)

(***************************************************************************)
(* _canonical_string_encoder: re.sub(r'(["\\])', r'\\\1', string) between  *)
(* double quotes.                                                          *)
(***************************************************************************)
RECURSIVE SubEscape(_)
SubEscape(s) ==
  IF s = <<>> THEN <<>>
  ELSE (IF Head(s) \in {Quote, Backslash} THEN <<Backslash, Head(s)>>
        ELSE <<Head(s)>>) \o SubEscape(Tail(s))

RECURSIVE SubEscapeQuoteOnly(_)
SubEscapeQuoteOnly(s) ==
  IF s = <<>> THEN <<>>
  ELSE (IF Head(s) = Quote THEN <<Backslash, Head(s)>> ELSE <<Head(s)>>)
       \o SubEscapeQuoteOnly(Tail(s))

mut_canonical_string_encoder(string) ==
  <<Quote>> \o SubEscapeQuoteOnly(string) \o <<Quote>>

_canonical_string_encoder(string) ==
  <<Quote>> \o SubEscape(string) \o <<Quote>>

(***************************************************************************)
(* What a run of _encode_canonical leaves behind: the fragments passed to  *)
(* output_function so far, and the exception that ended the run, if any.   *)
(***************************************************************************)
Emit(fragment) == [out |-> <<fragment>>, err |-> "none"]
Raise(e) == [out |-> <<>>, err |-> e]
Skip == [out |-> <<>>, err |-> "none"]

\* Statement r followed by statement next: next runs only if r did not raise.
Then(r, next) ==
  IF r.err # "none" THEN r ELSE [out |-> r.out \o next.out, err |-> next.err]

(***************************************************************************)
(* Python's < on two keys.  Strings compare by code point, left to right;  *)
(* ints and bools compare as numbers; any other pairing raises TypeError   *)
(* in sorted().                                                            *)
(***************************************************************************)
RECURSIVE StrLess(_, _)
StrLess(a, b) ==
  IF b = <<>> THEN FALSE
  ELSE IF a = <<>> THEN TRUE
  ELSE IF Head(a) # Head(b) THEN Head(a) < Head(b)
  ELSE StrLess(Tail(a), Tail(b))

IsNumber(k) == k.kind \in {"int", "bool"}

Comparable(k1, k2) ==
  \/ k1.kind = "str" /\ k2.kind = "str"
  \/ IsNumber(k1) /\ IsNumber(k2)

KeyLess(k1, k2) ==
  IF k1.kind = "str" THEN StrLess(k1.s, k2.s) ELSE k1.n < k2.n

\* dict.items(): the (key, value) pairs in insertion order.
IterItems(object) ==
  [i \in 1..Len(object.keys) |-> <<object.keys[i], object.items[i]>>]

\* sorted() raises when two of the keys cannot be ordered.
SortRaises(pairs) ==
  \E i, j \in 1..Len(pairs) : i # j /\ ~Comparable(pairs[i][1], pairs[j][1])

RECURSIVE InsertSorted(_, _)
InsertSorted(pair, sorted) ==
  IF sorted = <<>> THEN <<pair>>
  ELSE IF KeyLess(pair[1], Head(sorted)[1]) THEN <<pair>> \o sorted
  ELSE <<Head(sorted)>> \o InsertSorted(pair, Tail(sorted))

RECURSIVE SortPairs(_)
SortPairs(pairs) ==
  IF pairs = <<>> THEN <<>>
  ELSE InsertSorted(Head(pairs), SortPairs(Tail(pairs)))

RECURSIVE EscapedInsert(_, _)
EscapedInsert(pair, sorted) ==
  IF sorted = <<>> THEN <<pair>>
  ELSE IF StrLess(_canonical_string_encoder(pair[1].s),
                  _canonical_string_encoder(Head(sorted)[1].s))
       THEN <<pair>> \o sorted
  ELSE <<Head(sorted)>> \o EscapedInsert(pair, Tail(sorted))

RECURSIVE SortPairsEscaped(_)
SortPairsEscaped(pairs) ==
  IF pairs = <<>> THEN <<>>
  ELSE EscapedInsert(Head(pairs), SortPairsEscaped(Tail(pairs)))

\* The entries ordered by the escaped key text instead of the raw one.
SortedByEscapedKey(pairs) ==
  IF \A i \in 1..Len(pairs) : pairs[i][1].kind = "str"
  THEN SortPairsEscaped(pairs) ELSE SortPairs(pairs)

\* The entries left in insertion order.
Unsorted(pairs) == pairs

\* sorted(six.iteritems(object)), when it does not raise.
Sorted(pairs) == SortPairs(pairs)

\* isinstance(object, six.integer_types) after True and False are handled.
IsFloatOrInteger(object) == object.kind \in {"int", "float"}

IsInteger(object) == object.kind = "int"

\* _canonical_string_encoder(key): re.sub raises TypeError on a non-string.
EncodeKey(key) ==
  IF key.kind = "str" THEN Emit(_canonical_string_encoder(key.s))
  ELSE Raise("TypeError")

\* object == True, which the integer 1 satisfies as well.
EqualsTrue(object) == object.kind \in {"bool", "int"} /\ object.n = 1

\* object is True
IsTrue(object) == object.kind = "bool" /\ object.n = 1

\* object is False
IsFalse(object) == object.kind = "bool" /\ object.n = 0

\* The object a name is bound to: a reference stands for the container it
\* refers to.
Deref(object) == IF object.kind = "ref" THEN heap[object.n].v ELSE object

RECURSIVE EncodeCall(_, _)
RECURSIVE EncodeElements(_, _, _)
RECURSIVE EncodeEntries(_, _, _)

\* for item in object[:-1]: encode, ","; then object[-1], from index i on.
EncodeElements(object, i, depth) ==
  IF i > Len(object) THEN Skip
  ELSE Then(EncodeCall(object[i], depth),
            IF i < Len(object)
            THEN Then(Emit(Lit(<<",">>)), EncodeElements(object, i + 1, depth))
            ELSE Skip)

\* for key, value in items[:-1]: key, ":", value, ","; then items[-1].
EncodeEntries(items, i, depth) ==
  IF i > Len(items) THEN Skip
  ELSE Then(EncodeKey(items[i][1]),
       Then(Emit(Lit(<<":">>)),
       Then(EncodeCall(items[i][2], depth),
            IF i < Len(items)
            THEN Then(Emit(Lit(<<",">>)), EncodeEntries(items, i + 1, depth))
            ELSE Skip)))

\* The body of _encode_canonical in the frame at the given depth.
EncodeBody(object, depth) ==
  IF object.kind = "str" THEN Emit(_canonical_string_encoder(object.s))
  ELSE IF IsTrue(object) THEN Emit(Lit(<<"t", "r", "u", "e">>))
  ELSE IF IsFalse(object) THEN Emit(Lit(<<"f", "a", "l", "s", "e">>))
  ELSE IF object.kind = "none" THEN Emit(Lit(<<"n", "u", "l", "l">>))
  ELSE IF IsInteger(object) THEN Emit(StrOf(object))
  ELSE IF object.kind = "list"
       THEN Then(Emit(Lit(<<"[">>)),
            Then(EncodeElements(object.items, 1, depth + 1),
                 Emit(Lit(<<"]">>))))
  ELSE IF object.kind = "dict"
       THEN Then(Emit(Lit(<<"{">>)),
            Then(IF Len(object.keys) = 0 THEN Skip
                 ELSE IF SortRaises(IterItems(object)) THEN Raise("TypeError")
                 ELSE EncodeEntries(Sorted(IterItems(object)), 1, depth + 1),
                 Emit(Lit(<<"}">>))))
  ELSE Raise("FormatError")

\* A call of _encode_canonical: the interpreter refuses the frame beyond its
\* recursion limit.
EncodeCall(object, depth) ==
  IF depth > RecursionLimit THEN Raise("RecursionError")
  ELSE EncodeBody(Deref(object), depth)

_encode_canonical(object) == EncodeCall(object, 1)

\* separator.join(result)
RECURSIVE JoinWith(_, _)
JoinWith(separator, result) ==
  IF result = <<>> THEN <<>>
  ELSE IF Len(result) = 1 THEN Head(result)
  ELSE Head(result) \o separator \o JoinWith(separator, Tail(result))

\* The fragments joined with a separator that is not the empty string.
JoinWithComma(result) == JoinWith(Lit(<<",">>), result)

\* ''.join(result)
Join(result) == JoinWith(<<>>, result)

(***************************************************************************)
(* encode_canonical(object, output_function).  Without an output function  *)
(* the fragments go to a private list and the join is returned; with one,  *)
(* the fragments go to the caller's sink as they are produced and the call *)
(* returns None.  TypeError and FormatError are caught and a new           *)
(* FormatError('Could not encode ' + repr(object) + ': ' + str(e)) is      *)
(* raised in their place; any other exception passes through as it is.     *)
(***************************************************************************)
\* A handler that catches the encoder's own FormatError only.
CaughtFormatErrorOnly == {"FormatError"}

\* except (TypeError, securesystemslib.exceptions.FormatError)
Caught == {"TypeError", "FormatError"}

RunOutcome(run, sinkGiven) ==
  IF run.err \in Caught
  THEN [outcome |-> "raised", exc |-> "FormatError", rewrapped |-> TRUE,
        hasString |-> FALSE, string |-> <<>>,
        sink |-> IF sinkGiven THEN run.out ELSE <<>>]
  ELSE IF run.err # "none"
  THEN [outcome |-> "raised", exc |-> run.err, rewrapped |-> FALSE,
        hasString |-> FALSE, string |-> <<>>,
        sink |-> IF sinkGiven THEN run.out ELSE <<>>]
  ELSE IF sinkGiven
  THEN [outcome |-> "returned", exc |-> "none", rewrapped |-> FALSE,
        hasString |-> FALSE, string |-> <<>>, sink |-> run.out]
  ELSE [outcome |-> "returned", exc |-> "none", rewrapped |-> FALSE,
        hasString |-> TRUE, string |-> Join(run.out), sink |-> <<>>]

encode_canonical(object, sinkGiven) ==
  LET run == CHOOSE r \in {_encode_canonical(object)} : TRUE
  IN RunOutcome(run, sinkGiven)

(***************************************************************************)
(* An output function that takes `limit` writes and raises an exception of *)
(* the given kind on the next one.  The run of _encode_canonical ends at   *)
(* that write, with that exception, unless it has ended before.            *)
(***************************************************************************)
RejectingSink(limit, kind) == [limit |-> limit, kind |-> kind]

Rejects(run, sink) == Len(run.out) > sink.limit

RunAgainst(run, sink) ==
  IF Rejects(run, sink)
  THEN [out |-> SubSeq(run.out, 1, sink.limit), err |-> sink.kind]
  ELSE run

\* Calls of output_function made during the run.
Writes(run, sink) ==
  IF Rejects(run, sink) THEN sink.limit + 1 ELSE Len(run.out)

encode_canonical_into(object, sink) ==
  LET run == CHOOSE r \in {_encode_canonical(object)} : TRUE
  IN [call |-> RunOutcome(RunAgainst(run, sink), TRUE),
      rejected |-> Rejects(run, sink), writes |-> Writes(run, sink)]

(***************************************************************************)
(* The heap.  An object is either a value that came from the caller, or a  *)
(* dict built by make_signable, whose 'signed' entry refers to the wrapped *)
(* object and whose 'signatures' entry refers to a list object.            *)
(***************************************************************************)
SignedKey == PyStr(Lit(<<"s", "i", "g", "n", "e", "d">>))
SignaturesKey ==
  PyStr(Lit(<<"s", "i", "g", "n", "a", "t", "u", "r", "e", "s">>))

Obj(v) == [tag |-> "value", v |-> v, signed |-> 0, signatures |-> 0]
Signable(object, sigs) ==
  [tag |-> "signable", v |-> PyNone, signed |-> object, signatures |-> sigs]

HasKey(v, key) == v.kind = "dict" /\ \E i \in 1..Len(v.keys) : v.keys[i] = key
IndexOf(v, key) == CHOOSE i \in 1..Len(v.keys) : v.keys[i] = key

RECURSIVE ValueOf(_)
ValueOf(id) ==
  IF heap[id].tag = "value" THEN heap[id].v
  ELSE PyDict(<<SignedKey, SignaturesKey>>,
              <<ValueOf(heap[id].signed), PyList(lists[heap[id].signatures])>>)

Ids == 1..Len(heap)

NoCall ==
  [fn |-> "none", arg |-> 0, sinkGiven |-> FALSE, outcome |-> "none",
   exc |-> "none", hasString |-> FALSE, string |-> <<>>, sink |-> <<>>,
   res |-> 0, rewrapped |-> FALSE, rejected |-> "none", writes |-> 0]

CallOf(fn, arg, sinkGiven, r) ==
  [fn |-> fn, arg |-> arg, sinkGiven |-> sinkGiven, outcome |-> r.outcome,
   exc |-> r.exc, hasString |-> r.hasString, string |-> r.string,
   sink |-> r.sink, res |-> 0, rewrapped |-> r.rewrapped,
   rejected |-> "none", writes |-> Len(r.sink)]

(***************************************************************************)
(* make_signable(object).                                                  *)
(***************************************************************************)
\* The test looks for a 'signatures' entry instead of a 'signed' one.
TestsSignaturesKey(o) ==
  o.tag = "signable" \/ (o.tag = "value" /\ HasKey(o.v, SignaturesKey))

\* The test never recognises an envelope.
NeverSigned(o) == FALSE

\* isinstance(object, dict) and 'signed' in object
IsDictWithSigned(o) ==
  o.tag = "signable" \/ (o.tag = "value" /\ HasKey(o.v, SignedKey))

\* The list object of the envelope made before is used again.
SharedList == IF lists = <<>> THEN Len(lists) + 1 ELSE Len(lists)

\* [] evaluates to a new list object.
NewList == Len(lists) + 1

MakeSignable(object) ==
  /\ object \in Ids
  /\ UNCHANGED last
  /\ IF ~IsDictWithSigned(heap[object])
     THEN /\ Len(heap) < MaxObjs
          /\ heap' = Append(heap, Signable(object, NewList))
          /\ lists' = Append(lists, <<>>)
          /\ rets' = Append(rets, {})
          /\ appended' = Append(appended, <<>>)
          /\ made' = made \cup {[arg |-> object, res |-> Len(heap) + 1]}
     ELSE /\ made' = made \cup {[arg |-> object, res |-> object]}
          /\ UNCHANGED <<heap, lists, rets, appended>>

(***************************************************************************)
(* signable['signatures'].append(signature), by the caller of              *)
(* make_signable, on an envelope make_signable returned.                   *)
(***************************************************************************)
Envelopes == {m.res : m \in made}

RECURSIVE TotalLen(_)
TotalLen(seqs) ==
  IF seqs = <<>> THEN 0 ELSE Len(Head(seqs)) + TotalLen(Tail(seqs))

AppendSignature(e, signature) ==
  /\ e \in Envelopes
  /\ TotalLen(appended) < MaxSigs
  /\ UNCHANGED <<last, rets, made>>
  /\ IF heap[e].tag = "signable"
     THEN /\ lists' = [lists EXCEPT ![heap[e].signatures] = Append(@, signature)]
          /\ appended' = [appended EXCEPT ![e] = Append(@, signature)]
          /\ UNCHANGED heap
     ELSE \* KeyError without the entry, AttributeError when it is no list.
          /\ HasKey(heap[e].v, SignaturesKey)
          /\ heap[e].v.items[IndexOf(heap[e].v, SignaturesKey)].kind = "list"
          /\ heap' = [heap EXCEPT
                        ![e].v.items[IndexOf(heap[e].v, SignaturesKey)].items =
                          Append(@, signature)]
          /\ appended' = [appended EXCEPT ![e] = Append(@, signature)]
          /\ UNCHANGED lists

(***************************************************************************)
(* A call encode_canonical(object) or encode_canonical(object, sink).      *)
(***************************************************************************)
EncodeCanonical(object, sinkGiven) ==
  /\ object \in Ids
  /\ \E r \in {encode_canonical(ValueOf(object), sinkGiven)} :
        /\ last' = CallOf("encode_canonical", object, sinkGiven, r)
        /\ rets' = IF r.hasString /\ rets[object] = {}
                   THEN [rets EXCEPT ![object] = {r.string}] ELSE rets
  /\ UNCHANGED <<heap, lists, made, appended>>

(***************************************************************************)
(* A call encode_canonical(object, sink) with a sink that rejects a write. *)
(* rejected is the kind of exception the sink raised, if it raised one.    *)
(***************************************************************************)
EncodeCanonicalInto(object, sink) ==
  /\ object \in Ids
  /\ \E r \in {encode_canonical_into(ValueOf(object), sink)} :
        last' = [CallOf("encode_canonical", object, TRUE, r.call) EXCEPT
                   !.rejected = IF r.rejected THEN sink.kind ELSE "none",
                   !.writes = r.writes]
  /\ UNCHANGED <<heap, lists, rets, made, appended>>

(***************************************************************************)
(* encode_canonical(signable['signed']), as a verifier calls it.  The      *)
(* subscript raises KeyError on a dict without the entry and TypeError on  *)
(* an object that is no dict.                                              *)
(***************************************************************************)
EncodeSigned(e) ==
  /\ e \in Ids
  /\ UNCHANGED <<heap, lists, rets, made, appended>>
  /\ IF heap[e].tag = "value" /\ ~HasKey(heap[e].v, SignedKey)
     THEN last' = [NoCall EXCEPT
                     !.fn = "encode_signed", !.arg = e, !.outcome = "raised",
                     !.exc = IF heap[e].v.kind = "dict" THEN "KeyError"
                             ELSE "TypeError"]
     ELSE \E signed \in {IF heap[e].tag = "signable"
                          THEN ValueOf(heap[e].signed)
                          ELSE heap[e].v.items[IndexOf(heap[e].v, SignedKey)]} :
            \E r \in {encode_canonical(signed, FALSE)} :
               last' = CallOf("encode_signed", e, FALSE, r)

(***************************************************************************)
(* The values the calls are made on.                                       *)
(***************************************************************************)
SeqsUpTo(S, n) == UNION {[1..k -> S] : k \in 0..n}
InjSeqs(S, n) ==
  {s \in [1..n -> S] : \A i, j \in 1..n : i # j => s[i] # s[j]}
InjSeqsUpTo(S, n) == UNION {InjSeqs(S, k) : k \in 0..n}

\* '"', '\', a control character, an ASCII letter, a non-ASCII letter.
Chars == {Quote, Backslash, 10, 65, 233}
Strings == {PyStr(s) : s \in SeqsUpTo(Chars, MaxStrLen)}
IntegerValues == {PyInt(n) : n \in {0 - 120, 0 - 7, 0, 3, 10, 405}}
Atoms == Strings \cup IntegerValues \cup {PyBool(TRUE), PyBool(FALSE), PyNone, PyFloat(1)}

Elements == {PyStr(<<Quote>>), PyInt(0 - 7), PyBool(TRUE), PyNone, PyFloat(1)}
FlatLists == {PyList(items) : items \in SeqsUpTo(Elements, MaxLen)}

Keys == {PyStr(<<Quote>>), PyStr(<<65>>), PyStr(<<Backslash>>), PyInt(1)}
EntryValues == {PyInt(3), PyFloat(1)}
FlatDicts ==
  UNION {{PyDict(keys, items) : items \in [1..Len(keys) -> EntryValues]} :
           keys \in InjSeqsUpTo(Keys, MaxLen)}

InnerKeys == {PyStr(<<Backslash>>), PyStr(<<65>>)}
Inner ==
  {PyList(<<>>), PyDict(<<>>, <<>>), PyList(<<PyInt(3), PyFloat(1)>>),
   PyList(<<PyInt(10), PyStr(<<65>>)>>)}
  \cup {PyDict(keys, <<PyInt(3), PyNone>>) : keys \in InjSeqs(InnerKeys, 2)}
  \cup {PyDict(keys, <<PyNone, PyInt(3)>>) : keys \in InjSeqs(InnerKeys, 2)}
OuterKeys == {PyStr(<<Quote>>), PyStr(<<65>>)}
Nested ==
  {PyList(<<c>>) : c \in Inner}
  \cup {PyList(<<PyInt(3), c>>) : c \in Inner}
  \cup {PyList(<<c, PyFloat(1)>>) : c \in Inner}
  \cup UNION {{PyDict(keys, <<c, d>>) : c, d \in Inner} :
                keys \in InjSeqs(OuterKeys, 2)}

Values == Atoms \cup FlatLists \cup FlatDicts \cup Nested

\* The same mapping built in another insertion order, at any depth.
Perms(n) == InjSeqs(1..n, n)
Product(sets) ==
  {s \in [1..Len(sets) -> UNION {sets[i] : i \in 1..Len(sets)}] :
     \A i \in 1..Len(sets) : s[i] \in sets[i]}

RECURSIVE Reorderings(_)
Reorderings(v) ==
  IF v.kind = "list"
  THEN {PyList(items) :
          items \in Product([i \in 1..Len(v.items) |-> Reorderings(v.items[i])])}
  ELSE IF v.kind = "dict"
  THEN UNION {{PyDict([i \in 1..Len(p) |-> v.keys[p[i]]],
                      [i \in 1..Len(p) |-> items[p[i]]]) :
                 p \in Perms(Len(v.keys))} :
                items \in Product([i \in 1..Len(v.items) |->
                                     Reorderings(v.items[i])])}
  ELSE {v}

\* Signature records: keyid, method and sig.
Signature(keyid, sig) ==
  PyDict(<<PyStr(Lit(<<"k", "e", "y", "i", "d">>)),
           PyStr(Lit(<<"m", "e", "t", "h", "o", "d">>)),
           PyStr(Lit(<<"s", "i", "g">>))>>,
         <<PyStr(keyid), PyStr(Lit(<<"m">>)), PyStr(sig)>>)
S1 == Signature(Lit(<<"a", "b">>), Lit(<<"c", "d">>))
S2 == Signature(Lit(<<"b", "a">>), Lit(<<"d", "c">>))
Signatures == {S1, S2}

\* Role payloads, and dicts that already carry a 'signed' entry.
Payloads ==
  {PyInt(3), PyDict(<<SignaturesKey>>, <<PyList(<<>>)>>),
   PyDict(<<SignedKey>>, <<PyInt(3)>>),
   PyDict(<<SignaturesKey, SignedKey>>, <<PyList(<<S1>>), PyStr(<<65>>)>>),
   PyDict(<<SignedKey, SignaturesKey>>, <<PyDict(<<>>, <<>>), PyInt(3)>>)}

(***************************************************************************)
(* Encoding alone: two values given by the caller, the second one the      *)
(* first rebuilt in some insertion order, and calls of encode_canonical.   *)
(***************************************************************************)
InitEnc ==
  /\ \E v \in Values : \E w \in Reorderings(v) : heap = <<Obj(v), Obj(w)>>
  /\ lists = <<>>
  /\ last = NoCall
  /\ rets = <<{}, {}>>
  /\ made = {}
  /\ appended = <<<<>>, <<>>>>

NextEnc == \E object \in Ids, sinkGiven \in BOOLEAN : EncodeCanonical(object, sinkGiven)

SpecEnc == InitEnc /\ [][NextEnc]_vars

(***************************************************************************)
(* The envelope: one payload given by the caller, then wraps, signature    *)
(* appends and encodes in any order.                                       *)
(***************************************************************************)
Init ==
  /\ \E p \in Payloads : heap = <<Obj(p)>>
  /\ lists = <<>>
  /\ last = NoCall
  /\ rets = <<{}>>
  /\ made = {}
  /\ appended = <<<<>>>>

Next ==
  \/ \E object \in Ids : MakeSignable(object)
  \/ \E e \in Ids, signature \in Signatures : AppendSignature(e, signature)
  \/ \E object \in Ids : heap[object].tag = "value" /\ EncodeCanonical(object, FALSE)
  \/ \E e \in Ids : EncodeSigned(e)

Spec == Init /\ [][Next]_vars

(***************************************************************************)
(* The failure paths: one value given by the caller, which may be a        *)
(* mapping with keys that are not strings or a container that holds        *)
(* itself, and calls of encode_canonical with and without an output        *)
(* function, the output function possibly one that rejects a write.        *)
(***************************************************************************)
\* Keys that are not strings: an integer, a boolean, None.
NonStringKeys == {PyInt(1), PyBool(FALSE), PyNone}

\* Mappings with up to MaxLen entries of which at least one has such a key.
BadKeyDicts ==
  {PyDict(ks, [i \in 1..Len(ks) |-> PyInt(3)]) :
     ks \in {q \in InjSeqsUpTo(NonStringKeys \cup {PyStr(<<65>>)}, MaxLen) :
               \E i \in 1..Len(q) : q[i].kind # "str"}}

\* Those mappings at the top, inside a sequence, as a mapping's value, and
\* two levels down.
BadKeyValues ==
  BadKeyDicts
    \cup {PyList(<<d>>) : d \in BadKeyDicts}
    \cup {PyList(<<PyInt(3), d>>) : d \in BadKeyDicts}
    \cup {PyDict(<<PyStr(<<65>>)>>, <<d>>) : d \in BadKeyDicts}
    \cup {PyList(<<PyDict(<<PyStr(<<65>>)>>, <<d>>)>>) : d \in BadKeyDicts}

\* Containers of heap object 1 that hold themselves: l = [l], l = [3, l],
\* d = {'A': d}, l = [{'A': l}], d = {'A': [d], 'signed': 3}.
CyclicValues ==
  {PyList(<<PyRef(1)>>),
   PyList(<<PyInt(3), PyRef(1)>>),
   PyDict(<<PyStr(<<65>>)>>, <<PyRef(1)>>),
   PyList(<<PyDict(<<PyStr(<<65>>)>>, <<PyRef(1)>>)>>),
   PyDict(<<PyStr(<<65>>), SignedKey>>, <<PyList(<<PyRef(1)>>), PyInt(3)>>)}

\* Values that encode, of one to seven fragments, and one that holds a float.
PlainValues ==
  {PyInt(3), PyStr(<<Quote>>), PyList(<<>>),
   PyList(<<PyBool(TRUE), PyInt(3)>>),
   PyDict(<<PyStr(<<65>>)>>, <<PyInt(3)>>),
   PyDict(<<PyStr(<<65>>)>>, <<PyList(<<PyNone>>)>>),
   PyList(<<PyBool(TRUE), PyFloat(1)>>)}

ErrValues == BadKeyValues \cup CyclicValues \cup PlainValues

\* What a rejecting output function raises.
SinkErrors == {"IOError", "TypeError", "FormatError"}

Sinks == {RejectingSink(limit, kind) : limit \in 0..MaxWrites, kind \in SinkErrors}

InitErr ==
  /\ \E v \in ErrValues : heap = <<Obj(v)>>
  /\ lists = <<>>
  /\ last = NoCall
  /\ rets = <<{}>>
  /\ made = {}
  /\ appended = <<<<>>>>

NextErr ==
  \/ \E object \in Ids, sinkGiven \in BOOLEAN : EncodeCanonical(object, sinkGiven)
  \/ \E object \in Ids, sink \in Sinks : EncodeCanonicalInto(object, sink)

SpecErr == InitErr /\ [][NextErr]_vars

(***************************************************************************)
(* Encodings side by side: two values of the closed kind set given by the  *)
(* caller, chosen close to one another (a boolean and the integer it       *)
(* equals, a number and the text of its digits, texts that differ in       *)
(* quotes and backslashes, texts that spell the punctuation of a sequence  *)
(* or a mapping), and calls of encode_canonical without an output          *)
(* function.                                                               *)
(***************************************************************************)
\* The code points of '1', ',' and ':'.
One == 49
Comma == CP[","]
Colon == CP[":"]

CloseStrings ==
  {PyStr(s) : s \in SeqsUpTo({Quote, Backslash, One}, MaxStrLen)}
    \cup {PyStr(Lit(<<"t", "r", "u", "e">>)), PyStr(Lit(<<"n", "u", "l", "l">>)),
          PyStr(<<Quote, Comma, Quote>>), PyStr(<<One, Comma, One>>)}

CloseAtoms ==
  CloseStrings
    \cup {PyInt(0), PyInt(1), PyInt(0 - 1), PyInt(11),
          PyBool(TRUE), PyBool(FALSE), PyNone}

CloseElements == {PyInt(1), PyBool(TRUE), PyStr(<<>>), PyStr(<<One>>)}

CloseLists ==
  {PyList(s) : s \in SeqsUpTo(CloseElements, MaxLen)}
    \cup {PyList(<<PyStr(<<Quote, Comma, Quote>>)>>),
          PyList(<<PyStr(<<One, Comma, One>>)>>),
          PyList(<<PyList(<<>>)>>), PyList(<<PyList(<<PyInt(1)>>)>>),
          PyList(<<PyDict(<<>>, <<>>)>>)}

CloseKeys == {PyStr(<<One>>), PyStr(<<Quote>>)}

CloseDicts ==
  {PyDict(ks, vs) : ks \in InjSeqs(CloseKeys, 1), vs \in [1..1 -> CloseElements]}
    \cup {PyDict(ks, vs) : ks \in InjSeqs(CloseKeys, 2),
                           vs \in [1..2 -> {PyInt(1), PyBool(TRUE)}]}
    \cup {PyDict(<<>>, <<>>),
          PyDict(<<PyStr(<<One>>)>>, <<PyList(<<>>)>>),
          PyDict(<<PyStr(<<One>>)>>, <<PyDict(<<>>, <<>>)>>),
          PyDict(<<PyStr(<<One, Quote, Comma, Quote, One>>)>>, <<PyInt(1)>>),
          PyDict(<<PyStr(<<One, Quote, Colon, One>>)>>, <<PyInt(1)>>)}

CloseValues == CloseAtoms \cup CloseLists \cup CloseDicts

InitPair ==
  /\ \E v, w \in CloseValues : heap = <<Obj(v), Obj(w)>>
  /\ lists = <<>>
  /\ last = NoCall
  /\ rets = <<{}, {}>>
  /\ made = {}
  /\ appended = <<<<>>, <<>>>>

NextPair == \E object \in Ids : EncodeCanonical(object, FALSE)

SpecPair == InitPair /\ [][NextPair]_vars

(***************************************************************************)
(* SIGNABLE_SCHEMA and SIGNATURE_SCHEMA.                                   *)
(***************************************************************************)
ItemAt(v, key) == v.items[IndexOf(v, key)]

\* [a-fA-F0-9]+
HexDigits == (48..57) \cup (65..70) \cup (97..102)
MatchesHex(v) ==
  v.kind = "str" /\ Len(v.s) > 0 /\ \A i \in 1..Len(v.s) : v.s[i] \in HexDigits

MatchesSignature(v) ==
  /\ v.kind = "dict"
  /\ HasKey(v, PyStr(Lit(<<"k", "e", "y", "i", "d">>)))
  /\ HasKey(v, PyStr(Lit(<<"m", "e", "t", "h", "o", "d">>)))
  /\ HasKey(v, PyStr(Lit(<<"s", "i", "g">>)))
  /\ MatchesHex(ItemAt(v, PyStr(Lit(<<"k", "e", "y", "i", "d">>))))
  /\ ItemAt(v, PyStr(Lit(<<"m", "e", "t", "h", "o", "d">>))).kind = "str"
  /\ MatchesHex(ItemAt(v, PyStr(Lit(<<"s", "i", "g">>))))

MatchesSignable(v) ==
  /\ v.kind = "dict"
  /\ HasKey(v, SignedKey)
  /\ HasKey(v, SignaturesKey)
  /\ ItemAt(v, SignaturesKey).kind = "list"
  /\ \A i \in 1..Len(ItemAt(v, SignaturesKey).items) :
       MatchesSignature(ItemAt(v, SignaturesKey).items[i])

(***************************************************************************)
(* Properties.                                                             *)
(***************************************************************************)
Range(s) == {s[i] : i \in 1..Len(s)}

\* The fragments of a sequence put one after the other, in order.
RECURSIVE Concat(_)
Concat(fragments) ==
  IF fragments = <<>> THEN <<>>
  ELSE Concat(SubSeq(fragments, 1, Len(fragments) - 1))
       \o fragments[Len(fragments)]

\* The text the last call of encode_canonical produced.
Text == IF last.hasString THEN last.string ELSE Concat(last.sink)

Encoded == last.fn = "encode_canonical" /\ last.outcome = "returned"
Target == heap[last.arg].v

\* a comes before b in ordinal order: at the first place where they differ,
\* a has ended or has the smaller code point.
OrdinalLess(a, b) ==
  \E i \in 1..Len(b) :
    /\ \A j \in 1..(i - 1) : j <= Len(a) /\ a[j] = b[j]
    /\ i > Len(a) \/ a[i] < b[i]

Encodable(v) == _encode_canonical(v).err = "none"
EncodingOf(v) == Concat(_encode_canonical(v).out)

RECURSIVE EntriesText(_, _, _)
EntriesText(v, p, i) ==
  IF i > Len(p) THEN <<>>
  ELSE _canonical_string_encoder(v.keys[p[i]].s) \o Lit(<<":">>)
       \o EncodingOf(v.items[p[i]])
       \o (IF i < Len(p) THEN Lit(<<",">>) ELSE <<>>)
       \o EntriesText(v, p, i + 1)

StringKeyed(v) ==
  /\ v.kind = "dict"
  /\ \A i \in 1..Len(v.keys) : v.keys[i].kind = "str"
  /\ \A i \in 1..Len(v.items) : Encodable(v.items[i])

\* C1: a mapping with unique string keys and encodable values encodes as
\* '{', its "key":value entries joined by ',' in ascending ordinal order of
\* the raw key text whatever the insertion order, and '}'; the empty mapping
\* encodes as '{}'.
C1_KeysInOrdinalOrder ==
  (last.fn = "encode_canonical" /\ StringKeyed(Target)) =>
    /\ last.outcome = "returned"
    /\ \E p \in Perms(Len(Target.keys)) :
         /\ \A i \in 1..(Len(p) - 1) :
              OrdinalLess(Target.keys[p[i]].s, Target.keys[p[i + 1]].s)
         /\ Text = Lit(<<"{">>) \o EntriesText(Target, p, 1) \o Lit(<<"}">>)

\* A mapping inserted in descending key order, with a key that needs
\* escaping, has been encoded.
C1_Witness ==
  /\ Encoded
  /\ StringKeyed(Target)
  /\ Len(Target.keys) >= 2
  /\ OrdinalLess(Target.keys[2].s, Target.keys[1].s)
  /\ Target.keys[2].s = <<Quote>>

RECURSIVE LogicalEq(_, _)
LogicalEq(a, b) ==
  /\ a.kind = b.kind
  /\ a.s = b.s
  /\ a.n = b.n
  /\ Len(a.items) = Len(b.items)
  /\ Len(a.keys) = Len(b.keys)
  /\ a.kind = "list" =>
       \A i \in 1..Len(a.items) : LogicalEq(a.items[i], b.items[i])
  /\ a.kind = "dict" =>
       \A i \in 1..Len(a.keys) :
         \E j \in 1..Len(b.keys) :
           a.keys[i] = b.keys[j] /\ LogicalEq(a.items[i], b.items[j])

\* C2: two values that differ only in the insertion order of their mappings,
\* at any depth, encode to the same string (or both fail), and a repeated
\* call on one value returns the string the first call returned.
C2_Deterministic ==
  /\ \A i, j \in Ids :
       (LogicalEq(heap[i].v, heap[j].v) /\ rets[i] # {} /\ rets[j] # {}) =>
         rets[i] = rets[j]
  /\ \A i, j \in Ids :
       (LogicalEq(heap[i].v, heap[j].v) /\ last.fn = "encode_canonical"
        /\ last.arg = i /\ last.outcome = "raised") => rets[j] = {}
  /\ (last.fn = "encode_canonical" /\ last.hasString) =>
       rets[last.arg] = {last.string}

\* Two lists whose inner mappings were inserted in different orders have both
\* been encoded.
C2_Witness ==
  /\ Len(heap) = 2
  /\ heap[1].v # heap[2].v
  /\ heap[1].v.kind = "list"
  /\ rets[1] # {}
  /\ rets[2] # {}

Special(c) == c \in {Quote, Backslash}
Specials(s, i) == Cardinality({j \in 1..i : Special(s[j])})
EscapedLen(s) == Len(s) + Specials(s, Len(s)) + 2

\* out is s between double quotes with one backslash added before each
\* backslash and each double quote and every other character copied.
IsEscaped(s, out) ==
  /\ Len(out) = EscapedLen(s)
  /\ out[1] = Quote
  /\ out[Len(out)] = Quote
  /\ \A i \in 1..Len(s) :
       /\ out[1 + i + Specials(s, i)] = s[i]
       /\ Special(s[i]) => out[i + Specials(s, i)] = Backslash

\* C3: a string, as a value or as a mapping key, encodes as a double quote,
\* its characters in order with one backslash added before each backslash and
\* each double quote and every other character unchanged, and a double quote.
C3_OnlyQuoteAndBackslashEscaped ==
  /\ (last.fn = "encode_canonical" /\ Target.kind = "str") =>
       last.outcome = "returned" /\ IsEscaped(Target.s, Text)
  /\ (Encoded /\ StringKeyed(Target) /\ Len(Target.keys) = 1) =>
       /\ Len(Text) >= EscapedLen(Target.keys[1].s) + 2
       /\ IsEscaped(Target.keys[1].s,
                    SubSeq(Text, 2, EscapedLen(Target.keys[1].s) + 1))
       /\ Text[EscapedLen(Target.keys[1].s) + 2] = CP[":"]

\* A string made of a backslash and a double quote has been encoded.
C3_Witness ==
  /\ Encoded
  /\ Target.kind = "str"
  /\ Target.s = <<Backslash, Quote>>

RECURSIVE Floats(_)
Floats(v) ==
  IF v.kind = "float" THEN {v}
  ELSE UNION {Floats(v.items[i]) : i \in 1..Len(v.items)}

\* C4: encoding a value with a float anywhere in the tree raises FormatError,
\* returns no string, and hands no rendering of the float to the sink.
C4_FloatRejected ==
  (last.fn = "encode_canonical" /\ Floats(Target) # {}) =>
    /\ last.outcome = "raised"
    /\ last.exc = "FormatError"
    /\ ~last.hasString
    /\ \A f \in Floats(Target) :
         FloatStr(f.n) \notin Range(last.sink)

\* Encoding a mapping one of whose values is a list that holds a float has
\* failed.
C4_Witness ==
  /\ last.fn = "encode_canonical"
  /\ last.outcome = "raised"
  /\ Target.kind = "dict"
  /\ \A i \in 1..Len(Target.keys) : Target.keys[i].kind = "str"
  /\ \E i \in 1..Len(Target.items) :
       Target.items[i].kind = "list" /\ Floats(Target.items[i]) # {}

\* C5: when encode_canonical fails, no string is returned and a sink that was
\* supplied has received no fragment of the failed encode.
C5_NoPartialOutput ==
  (last.fn = "encode_canonical" /\ last.outcome = "raised") =>
    ~last.hasString /\ last.sink = <<>>

\* The object has a 'signed' entry.
CarriesSigned(o) ==
  \/ o.tag = "signable"
  \/ /\ o.tag = "value"
     /\ o.v.kind = "dict"
     /\ SignedKey \in Range(o.v.keys)

C6_SameResult ==
  \A m \in made :
    /\ CarriesSigned(heap[m.arg]) => m.res = m.arg
    /\ \A m2 \in made : m2.arg = m.res => m2.res = m.res

C6_ArgumentUntouched ==
  made' # made => \A id \in Ids : heap'[id] = heap[id]

\* C6: make_signable(make_signable(p)) is make_signable(p), and an object
\* that carries a 'signed' entry is returned as the very same object, which
\* the call leaves as it was.
C6_Idempotent == [](C6_SameResult) /\ [][C6_ArgumentUntouched]_vars

\* A payload has been wrapped and the envelope has been wrapped again.
C6_Witness ==
  \E m, m2 \in made :
    m.res # m.arg /\ ~CarriesSigned(heap[m.arg]) /\ m2.arg = m.res

\* C7 as stated: for any payload P with B = encode_canonical(P), after
\* make_signable(P) and any number of appends, encode_canonical of the
\* envelope's 'signed' entry returns B.
C7_SignedReencodesToB ==
  \A m \in made :
    (last.fn = "encode_signed" /\ last.arg = m.res /\ rets[m.arg] # {}) =>
      last.outcome = "returned" /\ rets[m.arg] = {last.string}

\* C7: for any payload P that does not itself carry a 'signed' entry, with
\* B = encode_canonical(P): after make_signable(P) and any number of appends,
\* encode_canonical of the envelope's 'signed' entry returns B.
C7_FreshSignedReencodesToB ==
  \A m \in made :
    (~CarriesSigned(heap[m.arg]) /\ last.fn = "encode_signed"
     /\ last.arg = m.res /\ rets[m.arg] # {}) =>
      last.outcome = "returned" /\ rets[m.arg] = {last.string}

\* A payload was encoded and wrapped, two signatures were appended, and the
\* envelope's 'signed' entry has been encoded.
C7_Witness ==
  \E m \in made :
    /\ m.res # m.arg
    /\ ~CarriesSigned(heap[m.arg])
    /\ Len(appended[m.res]) >= 2
    /\ rets[m.arg] # {}
    /\ last.fn = "encode_signed"
    /\ last.arg = m.res
    /\ last.outcome = "returned"

\* The 'signatures' list of an envelope, when it has one.
HasSignatures(e) ==
  \/ heap[e].tag = "signable"
  \/ /\ HasKey(heap[e].v, SignaturesKey)
     /\ ItemAt(heap[e].v, SignaturesKey).kind = "list"
SignaturesOf(e) ==
  IF heap[e].tag = "signable" THEN lists[heap[e].signatures]
  ELSE ItemAt(heap[e].v, SignaturesKey).items

IsPrefix(a, b) == Len(a) <= Len(b) /\ SubSeq(b, 1, Len(a)) = a

C8_ExactlyTheAppended ==
  \A m \in made :
    /\ m.res # m.arg => SignaturesOf(m.res) = appended[m.res]
    /\ (m.res = m.arg /\ HasSignatures(m.res)) =>
         /\ Len(appended[m.res]) <= Len(SignaturesOf(m.res))
         /\ SubSeq(SignaturesOf(m.res),
                   Len(SignaturesOf(m.res)) - Len(appended[m.res]) + 1,
                   Len(SignaturesOf(m.res))) = appended[m.res]

C8_GrowsByAppend ==
  \A e \in Envelopes :
    HasSignatures(e) => IsPrefix(SignaturesOf(e), SignaturesOf(e)')

\* C8: the 'signatures' list of an envelope that make_signable built is
\* exactly the records appended to it, in append order, duplicates kept; and
\* on every envelope each earlier state of the list is a prefix of each later
\* one.
C8_AppendOnly == [](C8_ExactlyTheAppended) /\ [][C8_GrowsByAppend]_vars

\* A new envelope holds three signatures that are not in sorted order and
\* include a duplicate.
C8_Witness ==
  \E m \in made : m.res # m.arg /\ SignaturesOf(m.res) = <<S2, S1, S2>>

\* C9: whatever the input, make_signable returns a dict in SIGNABLE_SCHEMA
\* format: a 'signed' entry and a 'signatures' entry that is a list of
\* signature records.
C9_ReturnsSignableSchema == \A m \in made : MatchesSignable(ValueOf(m.res))

\* C10: the fragments passed to a sink, put together in the order of the
\* writes, are the string that the call without a sink returns for the same
\* value; a value encodes with a sink exactly when it encodes without one.
C10_SinkEqualsReturned ==
  (last.fn = "encode_canonical" /\ last.sinkGiven) =>
    /\ rets[last.arg] # {} => last.outcome = "returned"
    /\ (last.outcome = "returned" /\ rets[last.arg] # {}) =>
         rets[last.arg] = {Concat(last.sink)}
    /\ last.outcome = "returned" => ~last.hasString

\* A nested value was encoded without a sink and then with one, which got
\* more than ten fragments.
C10_Witness ==
  /\ Encoded
  /\ last.sinkGiven
  /\ rets[last.arg] # {}
  /\ Len(last.sink) > 10

(***************************************************************************)
(* C11: when the output function rejects a write, the exception it raised  *)
(* reaches the caller as it is, of the same kind and not wrapped into      *)
(* another one, and the rejected write is the last write attempted.        *)
(***************************************************************************)
C11_SinkErrorUnchanged ==
  (last.fn = "encode_canonical" /\ last.rejected # "none") =>
    /\ last.outcome = "raised"
    /\ last.exc = last.rejected
    /\ ~last.rewrapped
    /\ last.writes = Len(last.sink) + 1

\* The value holds a reference to heap object id.
RECURSIVE Reaches(_, _)
Reaches(v, id) ==
  \/ v.kind = "ref" /\ v.n = id
  \/ \E i \in 1..Len(v.items) : Reaches(v.items[i], id)

\* The container of heap object id is reachable from itself.
Cyclic(id) == heap[id].tag = "value" /\ Reaches(heap[id].v, id)

\* A call of encode_canonical whose output function, if any, took every write.
Called(id) ==
  last.fn = "encode_canonical" /\ last.arg = id /\ last.rejected = "none"

(***************************************************************************)
(* C12: encoding a container that is reachable from itself ends, and it    *)
(* ends in FormatError, not in another exception and not in a result.      *)
(***************************************************************************)
C12_CyclicFailsWithFormatError ==
  \A id \in Ids :
    (Called(id) /\ Cyclic(id)) =>
      (last.outcome = "raised" /\ last.exc = "FormatError")

\* Some mapping of the value, at any depth, has a key that is not a string.
RECURSIVE HasNonStringKey(_)
HasNonStringKey(v) ==
  \/ v.kind = "dict" /\ \E i \in 1..Len(v.keys) : v.keys[i].kind # "str"
  \/ \E i \in 1..Len(v.items) : HasNonStringKey(v.items[i])

\* The value holds no reference to a container: it is a tree.
RECURSIVE IsTree(_)
IsTree(v) == v.kind # "ref" /\ \A i \in 1..Len(v.items) : IsTree(v.items[i])

\* Nesting depth of the mappings with a non-string key, the value itself
\* being at depth 0.
RECURSIVE BadKeyDepths(_)
BadKeyDepths(v) ==
  (IF v.kind = "dict" /\ \E i \in 1..Len(v.keys) : v.keys[i].kind # "str"
   THEN {0} ELSE {})
    \cup UNION {{n + 1 : n \in BadKeyDepths(v.items[i])} : i \in 1..Len(v.items)}

(***************************************************************************)
(* C13: encoding a tree in which some mapping, at whatever depth and with  *)
(* however many entries, has a key that is not a string raises FormatError *)
(* and returns no string.                                                  *)
(***************************************************************************)
C13_NonStringKeyRejected ==
  \A id \in Ids :
    (Called(id) /\ heap[id].tag = "value" /\ IsTree(heap[id].v)
       /\ HasNonStringKey(heap[id].v)) =>
      /\ last.outcome = "raised"
      /\ last.exc = "FormatError"
      /\ ~last.hasString
      /\ last.string = <<>>

\* A mapping two levels down with a None key next to a string key has been
\* refused.
C13_Witness ==
  /\ Called(1)
  /\ heap[1].tag = "value"
  /\ BadKeyDepths(heap[1].v) = {2}
  /\ \E d \in BadKeyDicts :
       /\ heap[1].v = PyList(<<PyDict(<<PyStr(<<65>>)>>, <<d>>)>>)
       /\ Len(d.keys) = 2
       /\ \E i, j \in 1..2 : d.keys[i] = PyNone /\ d.keys[j].kind = "str"
  /\ last.exc = "FormatError"

\* Both values have been encoded and each call returned a string.
BothReturned == rets[1] # {} /\ rets[2] # {}

(***************************************************************************)
(* C14: two values of the closed kind set that differ as logical values    *)
(* (the insertion order of a mapping aside) never encode to the same       *)
(* string.                                                                 *)
(***************************************************************************)
C14_Injective ==
  (Len(heap) = 2 /\ heap[1].tag = "value" /\ heap[2].tag = "value"
     /\ BothReturned /\ ~LogicalEq(heap[1].v, heap[2].v)) =>
    rets[1] # rets[2]

\* True and 1 have both been encoded, to different strings.
C14_Witness ==
  /\ BothReturned
  /\ heap[1].v = PyBool(TRUE)
  /\ heap[2].v = PyInt(1)
  /\ rets[1] # rets[2]

\* The envelopes make_signable built, as against the arguments it returned.
FreshEnvelopes == {m.res : m \in {w \in made : w.res # w.arg}}

\* No two envelopes that make_signable built hold the same list object.
C15_OwnList ==
  \A a, b \in FreshEnvelopes :
    a # b => heap[a].signatures # heap[b].signatures

\* A wrap that builds an envelope gives it a list that is empty and that no
\* envelope held before.
C15_NewListEmpty ==
  \A m \in made' \ made :
    m.res # m.arg =>
      /\ SignaturesOf(m.res)' = <<>>
      /\ \A e \in FreshEnvelopes : heap[e].signatures # heap'[m.res].signatures

\* An append to an envelope that make_signable built changes the signatures
\* of no other envelope and changes no payload.
C15_AppendFrame ==
  \A e \in FreshEnvelopes :
    appended'[e] # appended[e] =>
      /\ \A other \in Envelopes \ {e} :
           HasSignatures(other) => SignaturesOf(other)' = SignaturesOf(other)
      /\ \A id \in Ids : heap[id].tag = "value" => heap'[id] = heap[id]

(***************************************************************************)
(* C15: every wrap of a payload without a 'signed' entry builds an         *)
(* envelope with a new, empty signatures list of its own; so, after any    *)
(* wraps and appends, an append to one such envelope leaves the signatures *)
(* of every other envelope and the payload as they were, also when two     *)
(* envelopes wrap the same payload.                                        *)
(***************************************************************************)
C15_FreshSignatures ==
  [](C15_OwnList) /\ [][C15_NewListEmpty /\ C15_AppendFrame]_vars

\* Two envelopes wrap the same payload, a mapping with an empty 'signatures'
\* list of its own; each has had a different signature appended and the
\* payload's list is still empty.
C15_Witness ==
  \E m1, m2 \in made :
    /\ m1.arg = m2.arg
    /\ m1.res # m1.arg
    /\ m2.res # m2.arg
    /\ m1.res # m2.res
    /\ SignaturesOf(m1.res) = <<S1>>
    /\ SignaturesOf(m2.res) = <<S2>>
    /\ heap[m1.arg].v = PyDict(<<SignaturesKey>>, <<PyList(<<>>)>>)

====
